---------------------------- MODULE Spec2Model ----------------------------
(***************************************************************************)
(* Word-level LSTM language-model tutorial                                 *)
(* (docs/examples/language_model/language_model.ipynb): the truncated-BPTT *)
(* training loop `train`, the evaluator `evaluate`, the recursive helper   *)
(* `detach`, and the BPTT batchifier the notebook calls.                   *)
(*                                                                         *)
(* Numbers.  Losses and learning rates are exact rationals [num, den];     *)
(* float("Inf") is 1/0.  Losses are counted in tenths (5.0 is 50).         *)
(* A tensor is [val, grad]: its numeric content and whether it is linked   *)
(* to the autograd graph of the forward pass that produced it.             *)
(***************************************************************************)
EXTENDS Integers, Sequences, FiniteSets, TLC

(***************************************************************************)
(* Bounds of the model.                                                    *)
(***************************************************************************)
MaxBatches == 2     \* longest train / validation / test split, in batches
MaxNodes == 4       \* largest hidden-state tree given to detach, in nodes
MaxN == 8           \* longest token sequence given to the batchifier
MaxB == 3           \* largest batch size given to the batchifier
MaxT == 3           \* longest BPTT window given to the batchifier

(***************************************************************************)
(* Program constants (notebook cells 2 and 3).                             *)
(***************************************************************************)
num_gpus == 1
log_interval == 100
epochs == 3

context == 1 .. num_gpus                  \* [mx.gpu(i) for i in range(num_gpus)]
InitialLr == [num |-> 20, den |-> 1]      \* lr = 20
LossVals == {48, 50, 52}                  \* per-token losses the model can give
HidVals == {0, 1}                         \* numeric contents of a state tensor
ParamVals == {0, 1}                       \* abstract values of the parameters

(***************************************************************************)
(* Exact arithmetic.                                                       *)
(***************************************************************************)
RECURSIVE GCD(_, _)
GCD(a, b) ==
    IF b = 0 THEN a ELSE GCD(b, a % b)

Rat(n, d) ==
    IF d = 0 THEN [num |-> 1, den |-> 0]
    ELSE LET g == GCD(n, d) IN
         IF g = 0 THEN [num |-> 0, den |-> 1] ELSE [num |-> n \div g, den |-> d \div g]

Inf == [num |-> 1, den |-> 0]

Less(a, b) ==
    a.num * b.den < b.num * a.den

\* a variant of Quarter that halves
Quarter_Half(r) ==
    Rat(r.num, r.den * 2)

Quarter(r) ==
    Rat(r.num, r.den * 4)

RECURSIVE SumSeq(_)
SumSeq(s) ==
    IF s = <<>> THEN 0 ELSE Head(s) + SumSeq(Tail(s))


(***************************************************************************)
(* Hidden states: a tensor, or a tuple / list of hidden states.            *)
(***************************************************************************)
Tensor(v, g) ==
    [kind |-> "tensor", items |-> <<>>, val |-> v, grad |-> g]

List(s) ==
    [kind |-> "list", items |-> s, val |-> 0, grad |-> FALSE]

Tuple(s) ==
    [kind |-> "tuple", items |-> s, val |-> 0, grad |-> FALSE]

\* a variant of TensorDetach that returns the tensor as it is
TensorDetach_Keep(t) ==
    t

\* NDArray.detach(): the same numbers, cut from the autograd graph
TensorDetach(t) ==
    [t EXCEPT !.grad = FALSE]

\* a variant of detach that copies a container without descending into it
detach_Shallow(hidden) ==
    IF hidden.kind \in {"tuple", "list"}
    THEN List(hidden.items)
    ELSE TensorDetach(hidden)

\* def detach(hidden)
RECURSIVE detach(_)
detach(hidden) ==
    IF hidden.kind \in {"tuple", "list"}
    THEN List([j \in 1 .. Len(hidden.items) |-> detach(hidden.items[j])])
    ELSE TensorDetach(hidden)

\* model.begin_state(..., func=mx.nd.zeros): the LSTM state [h, c], all zeros
begin_state ==
    List(<<Tensor(0, FALSE), Tensor(0, FALSE)>>)

\* The recurrent part of model(X, h): the next [h, c] is a function of the
\* parameters, the input window and the previous state; it is linked to the
\* autograd graph exactly when the call is made under autograd.record().
ModelForward(p, X, hidden, recording) ==
    LET hv == hidden.items[1].val
        cv == hidden.items[2].val
    IN  List(<<Tensor((hv + X + p) % 2, recording), Tensor((cv + hv + 1) % 2, recording)>>)

\* trainer.step(1): one SGD update moves the parameters to a new value
SgdStep(p) ==
    (p + 1) % 2

----------------------------------------------------------------------------
(***************************************************************************)
(* State of the notebook.                                                  *)
(***************************************************************************)
VARIABLES
    pc,          \* position in the notebook / in train / in evaluate
    trainer_lr,  \* learning rate held by the module-level gluon.Trainer
    params,      \* the model parameters
    files,       \* snapshot files written by model.save_params, by epoch index
    train_data, val_data, test_data,   \* arguments of train: sequences of windows
    lr, best_val, epoch,               \* train: lr, best_val, loop variable epoch
    i, data, hiddens, h, grads,        \* train: batch loop
    n_total,                           \* train: tokens since the last log line
    val_L, test_L,                     \* train: results of the two evaluate calls
    data_source, e_caller,             \* evaluate: argument, and who called
    e_i, hidden, total_L, ntotal,      \* evaluate: locals
    ptb_L,                             \* cell 13: result of the top-level evaluate
    \* history variables (observations, not program state)
    lrArg,       \* the lr argument of the running call of train
    lr0,         \* the trainer's learning rate when that call started
    valHist,     \* validation losses of the epochs of that call so far
    lrFed,       \* per epoch of that call: the trainer's learning rates at its optimizer steps
    phases,      \* steps done for the current batch, in order
    order,       \* windows processed in the current epoch, in order
    nsteps,      \* optimizer steps of the running call
    nvalid,      \* validation evaluations started in the current epoch
    branch,      \* what the current epoch did after validation
    savedEpochs, \* epochs of the running call that wrote a snapshot
    fwd,         \* the latest forward pass of the running loop
    fwdBefore,   \* the forward pass before it in the same loop
    seenL,       \* <<sum, count>> of the per-token losses the running evaluate was given
    raised,      \* an exception is propagating / ended the last cell
    \* a helper function called on its own: its argument and what it returned
    arg, res, res2

progVars ==
    <<pc, trainer_lr, params, files, train_data, val_data, test_data, lr, best_val,
      epoch, i, data, hiddens, h, grads, n_total, val_L, test_L, data_source,
      e_caller, e_i, hidden, total_L, ntotal, ptb_L>>

histVars ==
    <<lrArg, lr0, valHist, lrFed, phases, order, nsteps, nvalid, branch,
      savedEpochs, fwd, fwdBefore, seenL, raised>>

callVars ==
    <<arg, res, res2>>

None == [num |-> 0, den |-> 0]     \* no value (an unbound Python name)
NoFwd == [loop |-> "none", idx |-> 0, input |-> begin_state, output |-> begin_state]
NoBranch == [kind |-> "none", tested |-> FALSE, saved |-> FALSE,
             lrBefore |-> None, trBefore |-> None, bestBefore |-> None]

\* a split of k windows; window j carries the token id j
Windows(k) ==
    [j \in 1 .. k |-> j]

DataSets ==
    {Windows(k) : k \in 0 .. MaxBatches}

\* per-token losses of one window (the window's token positions, abstracted)
TokenPos == {1}
LossVectors ==
    [TokenPos -> LossVals]


NoFile == -1
LrArgs == {InitialLr}              \* both calls of train pass lr = 20

trainArgs == <<train_data, val_data, test_data>>
batchVars == <<i, data, hiddens, h, grads, n_total>>
evalVars == <<data_source, e_caller, e_i, hidden, total_L, ntotal>>
callHist == <<lrArg, lr0, nsteps, savedEpochs>>

\* the hidden states of all contexts: [model.begin_state(...) for ctx in context]
ZeroHiddens ==
    List([j \in context |-> begin_state])

(***************************************************************************)
(* Cells 5-6: model.initialize, trainer = gluon.Trainer(..., lr); nothing  *)
(* is running and no call has left anything behind.                        *)
(***************************************************************************)
mainVars == <<trainer_lr, params, files, trainArgs, lr, best_val, epoch, batchVars,
              val_L, test_L, evalVars, ptb_L, histVars>>

MainIdle ==
    /\ trainer_lr = InitialLr
    /\ params = 0
    /\ files = [e \in 0 .. epochs - 1 |-> NoFile]
    /\ train_data = <<>> /\ val_data = <<>> /\ test_data = <<>>
    /\ lr = None /\ best_val = None /\ epoch = 0
    /\ i = 0 /\ data = 0 /\ hiddens = ZeroHiddens /\ h = <<>> /\ grads = "none"
    /\ n_total = 0
    /\ val_L = None /\ test_L = None
    /\ data_source = <<>> /\ e_caller = "none"
    /\ e_i = 0 /\ hidden = begin_state /\ total_L = 0 /\ ntotal = 0
    /\ ptb_L = None
    /\ lrArg = None /\ lr0 = None /\ valHist = <<>> /\ lrFed = <<>>
    /\ phases = <<>> /\ order = <<>> /\ nsteps = 0 /\ nvalid = 0
    /\ branch = NoBranch /\ savedEpochs = {}
    /\ fwd = NoFwd /\ fwdBefore = NoFwd /\ seenL = <<0, 0>> /\ raised = FALSE

Init ==
    /\ MainIdle
    /\ pc = "cell"
    /\ arg = 0 /\ res = 0 /\ res2 = 0

(***************************************************************************)
(* train(model, train_data, val_data, test_data, epochs, lr)               *)
(***************************************************************************)
\* cells 10 and 14 call train; lines 244-247
CallTrain ==
    /\ pc = "cell"
    /\ \E tr \in DataSets, va \in DataSets, te \in DataSets, a \in LrArgs :
          /\ train_data' = tr /\ val_data' = va /\ test_data' = te
          /\ lr' = a /\ lrArg' = a
    /\ best_val' = Inf
    /\ epoch' = 0
    /\ lr0' = trainer_lr
    /\ valHist' = <<>> /\ nsteps' = 0 /\ savedEpochs' = {} /\ raised' = FALSE
    /\ lrFed' = <<>>
    /\ ptb_L' = None
    /\ pc' = "t_epoch"
    /\ UNCHANGED <<trainer_lr, params, files, batchVars, val_L, test_L, evalVars>>
    /\ UNCHANGED <<phases, order, nvalid, branch, fwd, fwdBefore, seenL>>
    /\ UNCHANGED callVars

\* for epoch in range(epochs): ... hiddens = [model.begin_state(...)]; lines 248-253
Train_Epoch ==
    /\ pc = "t_epoch" /\ epoch < epochs
    /\ n_total' = 0
    /\ hiddens' = ZeroHiddens
    /\ i' = 0
    /\ val_L' = None /\ test_L' = None
    /\ order' = <<>> /\ nvalid' = 0 /\ branch' = NoBranch /\ phases' = <<>>
    /\ fwd' = NoFwd /\ fwdBefore' = NoFwd /\ seenL' = <<0, 0>>
    /\ lrFed' = Append(lrFed, {})
    /\ pc' = "t_batch"
    /\ UNCHANGED <<trainer_lr, params, files, trainArgs, lr, best_val, epoch>>
    /\ UNCHANGED <<data, h, grads, evalVars, ptb_L, callHist, valHist, raised>>
    /\ UNCHANGED callVars

\* the epoch loop is exhausted: the closing print, lines 305-307
Train_Finish ==
    /\ pc = "t_epoch" /\ epoch = epochs
    /\ pc' = "train_done"
    /\ UNCHANGED <<trainer_lr, params, files, trainArgs, lr, best_val, epoch>>
    /\ UNCHANGED <<batchVars, val_L, test_L, evalVars, ptb_L, histVars>>
    /\ UNCHANGED callVars

\* for i, (data, target) in enumerate(train_data): split_and_load; lines 254-258
Train_NextBatch ==
    /\ pc = "t_batch" /\ i < Len(train_data)
    /\ data' = train_data[i + 1]
    /\ order' = Append(order, train_data[i + 1])
    /\ phases' = <<>>
    /\ pc' = "t_detach"
    /\ UNCHANGED <<trainer_lr, params, files, trainArgs, lr, best_val, epoch>>
    /\ UNCHANGED <<i, hiddens, h, grads, n_total, val_L, test_L, evalVars, ptb_L>>
    /\ UNCHANGED <<callHist, valHist, lrFed, nvalid, branch, fwd, fwdBefore, seenL,
                   raised>>
    /\ UNCHANGED callVars

\* hiddens = detach(hiddens); line 259
Train_Detach ==
    /\ pc = "t_detach"
    /\ hiddens' = detach(hiddens)
    /\ phases' = Append(phases, "detach")
    /\ pc' = "t_forward"
    /\ UNCHANGED <<trainer_lr, params, files, trainArgs, lr, best_val, epoch>>
    /\ UNCHANGED <<i, data, h, grads, n_total, val_L, test_L, evalVars, ptb_L>>
    /\ UNCHANGED <<callHist, valHist, lrFed, order, nvalid, branch, fwd, fwdBefore,
                   seenL, raised>>
    /\ UNCHANGED callVars

\* with autograd.record(): output, h = model(X, h); lines 262-264
Train_Forward ==
    /\ pc = "t_forward"
    /\ h' = [j \in context |-> ModelForward(params, data, hiddens.items[j], TRUE)]
    /\ fwdBefore' = fwd
    /\ fwd' = [loop |-> "train", idx |-> i, input |-> hiddens, output |-> List(h')]
    /\ phases' = Append(phases, "forward")
    /\ pc' = "t_loss"
    /\ UNCHANGED <<trainer_lr, params, files, trainArgs, lr, best_val, epoch>>
    /\ UNCHANGED <<i, data, hiddens, grads, n_total, val_L, test_L, evalVars, ptb_L>>
    /\ UNCHANGED <<callHist, valHist, lrFed, order, nvalid, branch, seenL, raised>>
    /\ UNCHANGED callVars

\* batch_L = loss(...); L = L + ...; Ls.append(batch_L); hiddens[j] = h; lines 265-268
Train_Loss ==
    /\ pc = "t_loss"
    /\ hiddens' = [hiddens EXCEPT !.items = h]
    /\ h' = <<>>
    /\ phases' = Append(phases, "loss")
    /\ pc' = "t_backward"
    /\ UNCHANGED <<trainer_lr, params, files, trainArgs, lr, best_val, epoch>>
    /\ UNCHANGED <<i, data, grads, n_total, val_L, test_L, evalVars, ptb_L>>
    /\ UNCHANGED <<callHist, valHist, lrFed, order, nvalid, branch, fwd, fwdBefore,
                   seenL, raised>>
    /\ UNCHANGED callVars

\* L.backward(); line 269
Train_Backward ==
    /\ pc = "t_backward"
    /\ grads' = "raw"
    /\ phases' = Append(phases, "backward")
    /\ pc' = "t_clip"
    /\ UNCHANGED <<trainer_lr, params, files, trainArgs, lr, best_val, epoch>>
    /\ UNCHANGED <<i, data, hiddens, h, n_total, val_L, test_L, evalVars, ptb_L>>
    /\ UNCHANGED <<callHist, valHist, lrFed, order, nvalid, branch, fwd, fwdBefore,
                   seenL, raised>>
    /\ UNCHANGED callVars

\* gluon.utils.clip_global_norm(grads, grad_clip); lines 270-271
Train_Clip ==
    /\ pc = "t_clip"
    /\ grads' = "clipped"
    /\ phases' = Append(phases, "clip")
    /\ pc' = "t_step"
    /\ UNCHANGED <<trainer_lr, params, files, trainArgs, lr, best_val, epoch>>
    /\ UNCHANGED <<i, data, hiddens, h, n_total, val_L, test_L, evalVars, ptb_L>>
    /\ UNCHANGED <<callHist, valHist, lrFed, order, nvalid, branch, fwd, fwdBefore,
                   seenL, raised>>
    /\ UNCHANGED callVars

\* trainer.step(1); line 273
Train_Step ==
    /\ pc = "t_step"
    /\ params' = SgdStep(params)
    /\ lrFed' = [lrFed EXCEPT ![Len(lrFed)] = @ \cup {trainer_lr}]
    /\ nsteps' = nsteps + 1
    /\ phases' = Append(phases, "step")
    /\ pc' = "t_log"
    /\ UNCHANGED <<trainer_lr, files, trainArgs, lr, best_val, epoch>>
    /\ UNCHANGED <<batchVars, val_L, test_L, evalVars, ptb_L>>
    /\ UNCHANGED <<lrArg, lr0, savedEpochs, valHist, order, nvalid, branch, fwd,
                   fwdBefore, seenL, raised>>
    /\ UNCHANGED callVars

\* total_L += ...; n_total += data.size; the log line every log_interval batches;
\* lines 275-285 (the running loss is only printed and is not kept here)
Train_Log ==
    /\ pc = "t_log"
    /\ n_total' = IF i % log_interval = 0 /\ i > 0
                  THEN 0
                  ELSE n_total + Cardinality(TokenPos)
    /\ i' = i + 1
    /\ grads' = "none"
    /\ pc' = "t_batch"
    /\ UNCHANGED <<trainer_lr, params, files, trainArgs, lr, best_val, epoch>>
    /\ UNCHANGED <<data, hiddens, h, val_L, test_L, evalVars, ptb_L, histVars>>
    /\ UNCHANGED callVars

\* the batches are exhausted: val_L = evaluate(model, val_data, ...); lines 287-291
Train_Validate ==
    /\ pc = "t_batch" /\ i = Len(train_data)
    /\ data_source' = val_data /\ e_caller' = "val"
    /\ nvalid' = nvalid + 1
    /\ pc' = "e_begin"
    /\ UNCHANGED <<trainer_lr, params, files, trainArgs, lr, best_val, epoch>>
    /\ UNCHANGED <<batchVars, val_L, test_L, e_i, hidden, total_L, ntotal, ptb_L>>
    /\ UNCHANGED <<callHist, valHist, lrFed, phases, order, branch, fwd, fwdBefore,
                   seenL, raised>>
    /\ UNCHANGED callVars

\* if val_L < best_val: best_val = val_L; test_L = evaluate(model, test_data, ...);
\* lines 295-297
Train_Improved ==
    /\ pc = "t_branch" /\ Less(val_L, best_val)
    /\ best_val' = val_L
    /\ data_source' = test_data /\ e_caller' = "test"
    /\ branch' = [kind |-> "improved", tested |-> TRUE, saved |-> FALSE,
                  lrBefore |-> lr, trBefore |-> trainer_lr, bestBefore |-> best_val]
    /\ seenL' = <<0, 0>>
    /\ pc' = "e_begin"
    /\ UNCHANGED <<trainer_lr, params, files, trainArgs, lr, epoch>>
    /\ UNCHANGED <<batchVars, val_L, test_L, e_i, hidden, total_L, ntotal, ptb_L>>
    /\ UNCHANGED <<callHist, valHist, lrFed, phases, order, nvalid, fwd, fwdBefore,
                   raised>>
    /\ UNCHANGED callVars

\* model.save_params('{}_{}-{}.params'.format(model_name, dataset_name, epoch));
\* lines 298-299, and the end of the epoch's body
Train_Save ==
    /\ pc = "t_save"
    /\ files' = [files EXCEPT ![epoch] = params]
    /\ savedEpochs' = savedEpochs \cup {epoch}
    /\ branch' = [branch EXCEPT !.saved = TRUE]
    /\ seenL' = <<0, 0>>
    /\ epoch' = epoch + 1
    /\ pc' = "t_epoch"
    /\ test_L' = None
    /\ UNCHANGED <<trainer_lr, params, trainArgs, lr, best_val>>
    /\ UNCHANGED <<batchVars, val_L, evalVars, ptb_L>>
    /\ UNCHANGED <<lrArg, lr0, nsteps, valHist, lrFed, phases, order, nvalid, fwd,
                   fwdBefore, raised>>
    /\ UNCHANGED callVars

\* else: lr = lr*0.25; trainer.set_learning_rate(lr); lines 300-303
Train_Decay ==
    /\ pc = "t_branch" /\ ~Less(val_L, best_val)
    /\ lr' = Quarter(lr)
    /\ trainer_lr' = lr'
    /\ branch' = [kind |-> "decayed", tested |-> FALSE, saved |-> FALSE,
                  lrBefore |-> lr, trBefore |-> trainer_lr, bestBefore |-> best_val]
    /\ seenL' = <<0, 0>>
    /\ epoch' = epoch + 1
    /\ pc' = "t_epoch"
    /\ UNCHANGED <<params, files, trainArgs, best_val>>
    /\ UNCHANGED <<batchVars, val_L, test_L, evalVars, ptb_L>>
    /\ UNCHANGED <<callHist, valHist, lrFed, phases, order, nvalid, fwd, fwdBefore,
                   raised>>
    /\ UNCHANGED callVars


(***************************************************************************)
(* evaluate(model, data_source, ctx)                                       *)
(***************************************************************************)
\* cell 13: ptb_L = evaluate(model, ptb_val_data, context[0]); line 429
CallEvaluate ==
    /\ pc = "cell"
    /\ \E ds \in DataSets : data_source' = ds
    /\ e_caller' = "cell"
    /\ ptb_L' = None /\ raised' = FALSE
    /\ pc' = "e_begin"
    /\ UNCHANGED <<trainer_lr, params, files, trainArgs, lr, best_val, epoch>>
    /\ UNCHANGED <<batchVars, val_L, test_L, e_i, hidden, total_L, ntotal>>
    /\ UNCHANGED <<callHist, valHist, lrFed, phases, order, nvalid, branch, fwd,
                   fwdBefore, seenL>>
    /\ UNCHANGED callVars

\* total_L = 0.0; ntotal = 0; hidden = model.begin_state(...); lines 217-219
Evaluate_Begin ==
    /\ pc = "e_begin"
    /\ total_L' = 0 /\ ntotal' = 0
    /\ hidden' = begin_state
    /\ e_i' = 0
    /\ seenL' = <<0, 0>> /\ fwd' = NoFwd /\ fwdBefore' = NoFwd
    /\ pc' = "e_batch"
    /\ UNCHANGED <<trainer_lr, params, files, trainArgs, lr, best_val, epoch>>
    /\ UNCHANGED <<batchVars, val_L, test_L, data_source, e_caller, ptb_L>>
    /\ UNCHANGED <<callHist, valHist, lrFed, phases, order, nvalid, branch, raised>>
    /\ UNCHANGED callVars

\* a variant of Evaluate_Batch that also takes an optimizer step
Evaluate_Batch_Updating ==
    /\ pc = "e_batch" /\ e_i < Len(data_source)
    /\ hidden' = ModelForward(params, data_source[e_i + 1], hidden, FALSE)
    /\ \E L \in LossVectors :
          /\ total_L' = total_L + SumSeq(L)
          /\ ntotal' = ntotal + Len(L)
          /\ seenL' = <<seenL[1] + SumSeq(L), seenL[2] + Cardinality(DOMAIN L)>>
    /\ fwdBefore' = fwd
    /\ fwd' = [loop |-> "eval", idx |-> e_i, input |-> hidden, output |-> hidden']
    /\ e_i' = e_i + 1
    /\ params' = SgdStep(params)
    /\ UNCHANGED <<pc, trainer_lr, files, trainArgs, lr, best_val, epoch>>
    /\ UNCHANGED <<batchVars, val_L, test_L, data_source, e_caller, ptb_L>>
    /\ UNCHANGED <<callHist, valHist, lrFed, phases, order, nvalid, branch, raised>>
    /\ UNCHANGED callVars

\* one pass of the loop body: output, hidden = model(data, hidden); L = loss(...);
\* total_L += mx.nd.sum(L).asscalar(); ntotal += L.size; lines 220-227
Evaluate_Batch ==
    /\ pc = "e_batch" /\ e_i < Len(data_source)
    /\ hidden' = ModelForward(params, data_source[e_i + 1], hidden, FALSE)
    /\ \E L \in LossVectors :
          /\ total_L' = total_L + SumSeq(L)
          /\ ntotal' = ntotal + Len(L)
          /\ seenL' = <<seenL[1] + SumSeq(L), seenL[2] + Cardinality(DOMAIN L)>>
    /\ fwdBefore' = fwd
    /\ fwd' = [loop |-> "eval", idx |-> e_i, input |-> hidden, output |-> hidden']
    /\ e_i' = e_i + 1
    /\ UNCHANGED <<pc, trainer_lr, params, files, trainArgs, lr, best_val, epoch>>
    /\ UNCHANGED <<batchVars, val_L, test_L, data_source, e_caller, ptb_L>>
    /\ UNCHANGED <<callHist, valHist, lrFed, phases, order, nvalid, branch, raised>>
    /\ UNCHANGED callVars

\* return total_L / ntotal with ntotal = 0: ZeroDivisionError, which nothing
\* catches: it ends evaluate, train (when train called) and the cell; line 228
Evaluate_Raise ==
    /\ pc = "e_batch" /\ e_i = Len(data_source)
    /\ ntotal = 0
    /\ raised' = TRUE
    /\ pc' = "raised"
    /\ UNCHANGED <<trainer_lr, params, files, trainArgs, lr, best_val, epoch>>
    /\ UNCHANGED <<batchVars, val_L, test_L, evalVars, ptb_L>>
    /\ UNCHANGED <<callHist, valHist, lrFed, phases, order, nvalid, branch, fwd,
                   fwdBefore, seenL>>
    /\ UNCHANGED callVars

\* return total_L / ntotal to line 291: val_L = evaluate(model, val_data, ...);
\* the frame of evaluate is gone
Evaluate_ReturnVal ==
    /\ pc = "e_batch" /\ e_i = Len(data_source)
    /\ ntotal # 0 /\ e_caller = "val"
    /\ val_L' = Rat(total_L, ntotal)
    /\ valHist' = Append(valHist, val_L')
    /\ pc' = "t_branch"
    /\ data_source' = <<>> /\ e_caller' = "none"
    /\ e_i' = 0 /\ hidden' = begin_state /\ total_L' = 0 /\ ntotal' = 0
    /\ UNCHANGED <<trainer_lr, params, files, trainArgs, lr, best_val, epoch>>
    /\ UNCHANGED <<batchVars, test_L, ptb_L>>
    /\ UNCHANGED <<callHist, lrFed, phases, order, nvalid, branch, fwd, fwdBefore,
                   seenL, raised>>
    /\ UNCHANGED callVars

\* return total_L / ntotal to line 297: test_L = evaluate(model, test_data, ...)
Evaluate_ReturnTest ==
    /\ pc = "e_batch" /\ e_i = Len(data_source)
    /\ ntotal # 0 /\ e_caller = "test"
    /\ test_L' = Rat(total_L, ntotal)
    /\ pc' = "t_save"
    /\ data_source' = <<>> /\ e_caller' = "none"
    /\ e_i' = 0 /\ hidden' = begin_state /\ total_L' = 0 /\ ntotal' = 0
    /\ UNCHANGED <<trainer_lr, params, files, trainArgs, lr, best_val, epoch>>
    /\ UNCHANGED <<batchVars, val_L, ptb_L, histVars>>
    /\ UNCHANGED callVars

\* return total_L / ntotal to line 429: ptb_L = evaluate(...)
Evaluate_ReturnCell ==
    /\ pc = "e_batch" /\ e_i = Len(data_source)
    /\ ntotal # 0 /\ e_caller = "cell"
    /\ ptb_L' = Rat(total_L, ntotal)
    /\ pc' = "eval_done"
    /\ data_source' = <<>> /\ e_caller' = "none"
    /\ e_i' = 0 /\ hidden' = begin_state /\ total_L' = 0 /\ ntotal' = 0
    /\ UNCHANGED <<trainer_lr, params, files, trainArgs, lr, best_val, epoch>>
    /\ UNCHANGED <<batchVars, val_L, test_L, histVars>>
    /\ UNCHANGED callVars

\* A cell has ended (train returned, the top-level evaluate returned, or a
\* traceback was shown): the kernel is idle again; the module-level trainer,
\* model and files stay, the locals of the ended calls are gone.
Cell_Resume ==
    /\ pc \in {"train_done", "eval_done", "raised"}
    /\ pc' = "cell"
    /\ train_data' = <<>> /\ val_data' = <<>> /\ test_data' = <<>>
    /\ lr' = None /\ best_val' = None /\ epoch' = 0
    /\ i' = 0 /\ data' = 0 /\ hiddens' = ZeroHiddens /\ h' = <<>> /\ grads' = "none"
    /\ n_total' = 0
    /\ val_L' = None /\ test_L' = None
    /\ data_source' = <<>> /\ e_caller' = "none"
    /\ e_i' = 0 /\ hidden' = begin_state /\ total_L' = 0 /\ ntotal' = 0
    /\ ptb_L' = None
    /\ lrArg' = None /\ lr0' = None /\ valHist' = <<>> /\ lrFed' = <<>>
    /\ phases' = <<>> /\ order' = <<>> /\ nsteps' = 0 /\ nvalid' = 0
    /\ branch' = NoBranch /\ savedEpochs' = {}
    /\ fwd' = NoFwd /\ fwdBefore' = NoFwd /\ seenL' = <<0, 0>> /\ raised' = FALSE
    /\ UNCHANGED <<trainer_lr, params, files>>
    /\ UNCHANGED callVars

vars == <<progVars, histVars, callVars>>

Next ==
    \/ CallTrain
    \/ Train_Epoch
    \/ Train_Finish
    \/ Train_NextBatch
    \/ Train_Detach
    \/ Train_Forward
    \/ Train_Loss
    \/ Train_Backward
    \/ Train_Clip
    \/ Train_Step
    \/ Train_Log
    \/ Train_Validate
    \/ Train_Improved
    \/ Train_Save
    \/ Train_Decay
    \/ CallEvaluate
    \/ Evaluate_Begin
    \/ Evaluate_Batch
    \/ Evaluate_Raise
    \/ Evaluate_ReturnVal
    \/ Evaluate_ReturnTest
    \/ Evaluate_ReturnCell
    \/ Cell_Resume

Spec == Init /\ [][Next]_vars


----------------------------------------------------------------------------
(***************************************************************************)
(* detach called on its own, on any hidden state of at most MaxNodes nodes *)
(***************************************************************************)
Tensors ==
    {Tensor(v, g) : v \in HidVals, g \in BOOLEAN}

RECURSIVE Size(_)
Size(t) ==
    1 + SumSeq([j \in 1 .. Len(t.items) |-> Size(t.items[j])])

RECURSIVE HiddenStates(_), Forests(_)
\* the hidden states of at most n nodes
HiddenStates(n) ==
    IF n <= 0 THEN {}
    ELSE Tensors \cup {List(f) : f \in Forests(n - 1)} \cup {Tuple(f) : f \in Forests(n - 1)}

\* the sequences of hidden states of at most m nodes in all
Forests(m) ==
    {<<>>} \cup UNION {{<<t>> \o f : f \in Forests(m - Size(t))} : t \in HiddenStates(m)}

InitDetach ==
    /\ MainIdle
    /\ pc = "d_arg"
    /\ arg \in HiddenStates(MaxNodes)
    /\ res = 0 /\ res2 = 0

\* hidden = detach(hidden)
Detach_Call ==
    /\ pc = "d_arg"
    /\ res' = detach(arg)
    /\ pc' = "d_once"
    /\ UNCHANGED <<mainVars, arg, res2>>

\* ... and detach of what it returned
Detach_Again ==
    /\ pc = "d_once"
    /\ res2' = detach(res)
    /\ pc' = "d_twice"
    /\ UNCHANGED <<mainVars, arg, res>>

NextDetach ==
    \/ Detach_Call
    \/ Detach_Again

SpecDetach == InitDetach /\ [][NextDetach]_vars

----------------------------------------------------------------------------
(***************************************************************************)
(* The BPTT batchifier (x.bptt_batchify(vocab, bptt, batch_size,           *)
(* last_batch='discard'), cell 4), as section 4.1 of the specification     *)
(* describes it: N tokens, B parallel streams of N div B tokens, cut into  *)
(* windows of T rows with the target one row later; a trailing partial     *)
(* window is dropped.  Token k of the sequence has id k.                   *)
(***************************************************************************)
\* row r of the time-major matrix: the r-th token of each of the B streams
StreamRow(N, B, r) ==
    [b \in 1 .. B |-> (b - 1) * (N \div B) + r]

RECURSIVE CutWindows(_, _, _, _)
CutWindows(N, B, T, start) ==
    IF start + T + 1 > N \div B
    THEN <<>>
    ELSE <<[data   |-> [t \in 1 .. T |-> StreamRow(N, B, start + t)],
            target |-> [t \in 1 .. T |-> StreamRow(N, B, start + t + 1)]]>>
         \o CutWindows(N, B, T, start + T)

\* a variant of bptt_batchify that keeps a trailing partial window
bptt_batchify_KeepLast(N, B, T) ==
    LET full == CutWindows(N, B, T, 0)
        left == (N \div B) - 1 - Len(full) * T
    IN  IF left > 0
        THEN Append(full, [data   |-> [t \in 1 .. left |-> StreamRow(N, B, Len(full) * T + t)],
                           target |-> [t \in 1 .. left |-> StreamRow(N, B, Len(full) * T + t + 1)]])
        ELSE full

bptt_batchify(N, B, T) ==
    CutWindows(N, B, T, 0)

InitBatchify ==
    /\ MainIdle
    /\ pc = "b_arg"
    /\ arg \in [N : 0 .. MaxN, B : 1 .. MaxB, T : 1 .. MaxT]
    /\ res = <<>> /\ res2 = 0

Batchify_Call ==
    /\ pc = "b_arg"
    /\ res' = bptt_batchify(arg.N, arg.B, arg.T)
    /\ pc' = "b_done"
    /\ UNCHANGED <<mainVars, arg, res2>>

NextBatchify ==
    \/ Batchify_Call

SpecBatchify == InitBatchify /\ [][NextBatchify]_vars

----------------------------------------------------------------------------
(***************************************************************************)
(* Properties.                                                             *)
(***************************************************************************)
RECURSIVE NoGradLink(_)
NoGradLink(t) ==
    IF t.kind = "tensor" THEN ~t.grad
    ELSE \A j \in 1 .. Len(t.items) : NoGradLink(t.items[j])

RECURSIVE IsZeros(_)
IsZeros(t) ==
    IF t.kind = "tensor" THEN t.val = 0
    ELSE \A j \in 1 .. Len(t.items) : IsZeros(t.items[j])

\* nesting and numbers of a hidden state, without container kinds and graph links
RECURSIVE Skeleton(_)
Skeleton(t) ==
    [leaf |-> t.kind = "tensor", val |-> t.val,
     items |-> [j \in 1 .. Len(t.items) |-> Skeleton(t.items[j])]]

\* the numbers of the leaves, left to right
RECURSIVE LeafValues(_)
LeafValues(t) ==
    IF t.kind = "tensor" THEN <<t.val>>
    ELSE IF t.items = <<>> THEN <<>>
    ELSE LeafValues(t.items[1]) \o LeafValues([t EXCEPT !.items = Tail(t.items)])

Twenty == [num |-> 20, den |-> 1]
Five == [num |-> 5, den |-> 1]
Scenario == <<[num |-> 50, den |-> 1], [num |-> 52, den |-> 1], [num |-> 48, den |-> 1]>>

\* the running call of train started with the optimizer at 20 and lr = 20, and
\* its three validation losses were 5.0, 5.2, 4.8
InScenario ==
    /\ lrArg = Twenty /\ lr0 = Twenty
    /\ valHist = Scenario

\* C1 as stated: with validation losses [5.0, 5.2, 4.8] and initial learning
\* rate 20, the optimizer steps of epochs 1, 2, 3 are made at 20, 5, 5.
C1_StepsAt_20_5_5 ==
    InScenario =>
        \A e \in 1 .. 3 : lrFed[e] \subseteq {<<Twenty, Five, Five>>[e]}

\* C1 amended: the optimizer steps of epochs 1, 2, 3 are made at 20, 20, 5 (the
\* decay caused by the second epoch acts from the third epoch on), and the
\* learning rate the optimizer holds once epoch 1, 2, 3 has ended is 20, 5, 5.
C1_StepsAt_20_20_5 ==
    /\ InScenario =>
          \A e \in 1 .. 3 : lrFed[e] \subseteq {<<Twenty, Twenty, Five>>[e]}
    /\ ( /\ lrArg = Twenty /\ lr0 = Twenty
         /\ pc = "t_epoch" /\ epoch >= 1
         /\ valHist = SubSeq(Scenario, 1, epoch) )
       => trainer_lr = <<Twenty, Five, Five>>[epoch]

C1_Witness ==
    /\ InScenario
    /\ lrFed = <<{Twenty}, {Twenty}, {Five}>>
    /\ pc = "t_epoch" /\ trainer_lr = Five

EpochBranchOver ==
    \/ pc = "t_epoch" /\ branch.kind # "none"
    \/ pc = "raised" /\ e_caller = "test"

\* C2 as stated: in every epoch, after the validation evaluation, exactly one
\* branch is taken: a strictly lower validation loss persists the parameters,
\* evaluates the test split and leaves the learning rate alone; any other loss
\* multiplies the learning rate by 0.25 and sets it on the optimizer, writes no
\* snapshot, runs no test evaluation and leaves best_val alone.
C2_OneBranchPerEpoch ==
    EpochBranchOver =>
        LET v == valHist[Len(valHist)] IN
        /\ branch.kind = IF Less(v, branch.bestBefore) THEN "improved" ELSE "decayed"
        /\ branch.kind = "improved" =>
              /\ branch.saved /\ branch.tested
              /\ lr = branch.lrBefore /\ trainer_lr = branch.trBefore
        /\ branch.kind = "decayed" =>
              /\ lr.num * 4 * branch.lrBefore.den = branch.lrBefore.num * lr.den
              /\ trainer_lr = lr
              /\ ~branch.saved /\ ~branch.tested
              /\ best_val = branch.bestBefore

StrictlyLowest(hist, j) ==
    \A m \in 1 .. j - 1 : Less(hist[j], hist[m])

IsMinimum(v, hist) ==
    /\ \E m \in 1 .. Len(hist) : hist[m] = v
    /\ \A m \in 1 .. Len(hist) : ~Less(hist[m], v)

EndedEpochs ==
    IF pc = "raised" /\ e_caller = "test" THEN epoch + 1 ELSE epoch

\* C3 as stated: epoch e of a call writes a snapshot iff its validation loss is
\* strictly lower than that of every earlier epoch of the call; after every
\* epoch best_val is the minimum validation loss so far; each snapshot of the
\* call is a file of its own, named by the epoch index.
C3_SnapshotIffStrictlyLowest ==
    lrArg # None =>
        /\ \A j \in 1 .. EndedEpochs :
              (j - 1 \in savedEpochs) <=> StrictlyLowest(valHist, j)
        /\ \A e \in savedEpochs : files[e] # NoFile
        /\ (pc = "t_epoch" /\ epoch >= 1) => IsMinimum(best_val, valHist)

\* C5 as stated: for every finite batched dataset, one that yields no batches
\* included, evaluate returns the sum of the per-token losses divided by the
\* number of target tokens.
C5_EvaluateReturnsMean ==
    /\ ~raised
    /\ pc = "t_branch" => val_L = Rat(seenL[1], seenL[2])
    /\ pc = "t_save" => test_L = Rat(seenL[1], seenL[2])
    /\ pc = "eval_done" => ptb_L = Rat(seenL[1], seenL[2])

FullPhases == <<"detach", "forward", "loss", "backward", "clip", "step">>

TrainEnded ==
    \/ pc = "train_done"
    \/ pc = "raised" /\ e_caller \in {"val", "test"}

\* C8 as stated: batches are processed in dataset order; each batch goes through
\* detach, forward, loss, backward, clip and exactly one optimizer step, in that
\* order; each epoch is validated exactly once, after its last optimizer step
\* and before the next epoch; train ends after exactly `epochs` epochs and
\* epochs * (number of batches) optimizer steps.
C8_OrderAndTermination ==
    /\ order = SubSeq(train_data, 1, Len(order))
    /\ Len(phases) <= Len(FullPhases) /\ phases = SubSeq(FullPhases, 1, Len(phases))
    /\ pc = "t_log" => phases = FullPhases
    /\ nvalid <= 1
    /\ nvalid = 1 => order = train_data /\ i = Len(train_data)
    /\ (pc = "t_epoch" /\ epoch >= 1) => nvalid = 1
    /\ TrainEnded => epoch = epochs /\ nsteps = epochs * Len(train_data)

RECURSIVE NonImproving(_)
\* the epochs of hist whose loss is not strictly lower than every earlier one
NonImproving(hist) ==
    IF hist = <<>> THEN 0
    ELSE NonImproving(SubSeq(hist, 1, Len(hist) - 1))
         + IF StrictlyLowest(hist, Len(hist)) THEN 0 ELSE 1

RECURSIVE Pow4(_)
Pow4(k) ==
    IF k = 0 THEN 1 ELSE 4 * Pow4(k - 1)

\* C10 as stated: at every optimizer step of any call of train, the optimizer
\* holds that call's lr argument times 0.25^k, k the number of non-improving
\* epochs the call has completed; so the lr argument itself in the first epoch.
C10_LrIsArgTimesQuarterPowK ==
    lrArg # None =>
        \A e \in 1 .. Len(lrFed) :
            \A r \in lrFed[e] :
                r.num * lrArg.den * Pow4(NonImproving(SubSeq(valHist, 1, e - 1)))
                    = lrArg.num * r.den

\* C4: the first forward pass of every epoch and of every evaluate call is given
\* an all-zero hidden state; every later forward pass is given the numbers the
\* forward pass of the batch just before it (same epoch, same evaluate call)
\* returned; in train the state given is always free of autograd links.
C4_HiddenCarry ==
    fwd.loop # "none" =>
        /\ fwd.idx = 0 => IsZeros(fwd.input)
        /\ fwd.idx > 0 =>
              /\ fwdBefore.loop = fwd.loop /\ fwdBefore.idx = fwd.idx - 1
              /\ Skeleton(fwd.input) = Skeleton(fwdBefore.output)
        /\ fwd.loop = "train" => NoGradLink(fwd.input)

C4_Witness ==
    /\ fwd.loop = "train" /\ fwd.idx >= 1 /\ epoch >= 1
    /\ ~IsZeros(fwd.input)
    /\ ~NoGradLink(fwdBefore.output)
    /\ NoGradLink(fwd.input)

StepsIn(ph) ==
    Cardinality({k \in 1 .. Len(ph) : ph[k] = "step"})

\* C9: the parameters change only in the optimizer step, once per training
\* batch; forward, backward, detach, logging, the learning-rate adjustment, the
\* snapshot write and evaluate leave them alone, and evaluate also leaves the
\* learning rate, best_val and the training hidden state alone.
C9_OnlyTheOptimizerWrites ==
    /\ [][ /\ params' # params => pc = "t_step" /\ pc' = "t_log"
           /\ pc \in {"e_begin", "e_batch"} =>
                 UNCHANGED <<params, trainer_lr, lr, best_val, hiddens>> ]_vars
    /\ [](pc = "t_log" =>
             /\ StepsIn(phases) = 1
             /\ nsteps = epoch * Len(train_data) + i + 1)

C9_Witness ==
    /\ pc = "e_batch" /\ e_caller = "test" /\ e_i >= 1
    /\ nsteps >= 2 /\ params = 0
    /\ ~IsZeros(hiddens)

\* C7: detach of a tensor, or of any nesting of tuples and lists of tensors,
\* returns the same nesting with the same leaves in the same order, each leaf
\* with the number it had and none linked to the autograd graph; detach of
\* the result is the result.
C7_DetachKeepsNumbersCutsLinks ==
    /\ pc \in {"d_once", "d_twice"} =>
          /\ Skeleton(res) = Skeleton(arg)
          /\ LeafValues(res) = LeafValues(arg)
          /\ NoGradLink(res)
    /\ pc = "d_twice" => res2 = res

C7_Witness ==
    /\ pc = "d_twice"
    /\ arg.kind = "tuple" /\ Len(arg.items) >= 1
    /\ arg.items[1].kind = "list" /\ Len(arg.items[1].items) >= 1
    /\ arg.items[1].items[1].kind = "tensor"
    /\ arg.items[1].items[1].grad /\ arg.items[1].items[1].val = 1
    /\ res # arg

\* C6 as stated: for all N >= 0, B >= 1, T >= 1 the batchifier yields exactly
\* floor((N div B - 1) / T) window pairs, and nothing when N < B.
C6_CountIsFloor ==
    pc = "b_done" =>
        /\ Len(res) = ((arg.N \div arg.B) - 1) \div arg.T
        /\ arg.N < arg.B => Len(res) = 0

\* C6 amended: the batchifier yields floor((N div B - 1) / T) window pairs when
\* N >= B and none when N < B (where that floor is -1); in every pair the
\* target is the input one position later in each stream.
C6_CountIsFloorFromB ==
    pc = "b_done" =>
        /\ Len(res) = IF arg.N < arg.B THEN 0 ELSE ((arg.N \div arg.B) - 1) \div arg.T
        /\ \A w \in 1 .. Len(res) :
              /\ Len(res[w].data) = arg.T /\ Len(res[w].target) = arg.T
              /\ \A t \in 1 .. arg.T : \A b \in 1 .. arg.B :
                    res[w].target[t][b] = res[w].data[t][b] + 1

C6_Witness ==
    /\ pc = "b_done"
    /\ arg = [N |-> 8, B |-> 2, T |-> 2]
    /\ Len(res) = 1
    /\ res[1].data = <<<<1, 5>>, <<2, 6>>>>
    /\ res[1].target = <<<<2, 6>>, <<3, 7>>>>

=============================================================================
